---- MODULE Spec2Model ----
(***************************************************************************)
(* Model of scraper.py: the paginated fetch loop (fetch_page, scrape_all)  *)
(* and the spreadsheet reconciliation (save_excel), run by main.           *)
(*                                                                         *)
(* One run of main is: scrape_all's loop (Request, Respond, LoopBody),     *)
(* then save_excel (SaveExcel).  The spreadsheet file outlives a run; the  *)
(* operator may edit it between runs, and the program may be started       *)
(* again (StartRun).  Names are non-empty strings and the spreadsheet      *)
(* library is taken to store and read back such strings unchanged.         *)
(* requested and results are recorded for the first MaxRequests requests   *)
(* of a run; a run that goes on after that is followed in its control      *)
(* flow only (tracked = FALSE) and its save_excel is not modelled.         *)
(***************************************************************************)
EXTENDS Integers, Sequences, FiniteSets, TLC

(* ---------------------------- bounds ----------------------------------- *)
MaxPages == 2        \* pages the upstream collection may hold
MaxItems == 2        \* items on one page
MaxRuns  == 2        \* invocations of main
MaxEdits == 1        \* operator interventions on the file
MaxRequests == MaxPages + 1   \* page requests of one run the model records

(* ----------------------- program constants ----------------------------- *)
NoTitle  == "No Title"
NonFait  == "Non fait"
Fait     == "Fait"
LookaheadRows == 500

(* ------------------------- upstream payloads --------------------------- *)
Names  == {"A", "B"}
NoKey  == "<no key>"

\* An item of a page: "title" is missing, is null, or is an object that
\* may or may not hold the key "rendered".
Items ==
  {[title |-> "missing", rendered |-> NoKey],
   [title |-> "null",    rendered |-> NoKey],
   [title |-> "dict",    rendered |-> NoKey]}
  \cup {[title |-> "dict", rendered |-> n] : n \in Names}

PagesOfLen(n) == [1..n -> Items]
NonEmptyPages == UNION {PagesOfLen(n) : n \in 1..MaxItems}

\* What client.get / raise_for_status / r.json() can come to.
ErrorKinds == {"timeout", "connect", "status", "decode"}
OkResp(items) == [kind |-> "ok", payload |-> items]
ErrResp(k)    == [kind |-> k, payload |-> <<>>]
IsError(r)    == r.kind \in ErrorKinds

(* ------------------------------ records -------------------------------- *)
Record(n, ps, rs, st) ==
  [Name |-> n, ProjectSubmitted |-> ps, Response |-> rs, Statut |-> st]

NoFile == [exists |-> FALSE, readable |-> FALSE, rows |-> <<>>, bufferRow |-> 0]

Procs == {1, 2}
Idle  == [pc |-> "done", names |-> <<>>, seen |-> NoFile, wroteAt |-> 0]

VARIABLES
  pc,          \* position of main: "loop","await","fetched","save","done","failed"
  page,        \* scrape_all's page
  results,     \* scrape_all's results
  resp,        \* outcome of the last client.get inside fetch_page
  data,        \* value fetch_page returned to scrape_all
  requested,   \* page indices requested in this run, in order
  upstream,    \* pages of the remote collection served so far in this run
  file,        \* the persisted spreadsheet OUTPUT_FILE
  writes,      \* writes of OUTPUT_FILE made by this run
  prev,        \* names given to the last completed save_excel (valid while the
               \* file has not been edited since; repeat: the call before it
               \* got the same names and no edit came between the two)
  runs,        \* invocations of main so far
  edits,       \* operator interventions so far
  tracked,     \* FALSE once a run has made more than MaxRequests requests:
               \* from then on only the control flow of its loop is followed,
               \* requested, returned and results are no longer extended
  returned,    \* what fetch_page returned for each request of this run
  outstanding, \* requests sent and not yet answered
  calls,       \* calls of save_excel in this run: the names each was given
               \* and the file it found
  procs        \* RaceSpec only: two invocations inside save_excel, each with
               \* its position, its scraped_names, the file as it read it
               \* and the rank of its to_excel among the writes

vars == <<pc, page, results, resp, data, requested, upstream, file, writes,
          prev, runs, edits, tracked, returned, outstanding, calls, procs>>

(* ------------------------------ fetch_page ----------------------------- *)
\* try: get, raise_for_status, json; every exception returns [].
fetch_page(r) == IF IsError(r) THEN <<>> ELSE r.payload

(* ------------------------------ scrape_all ----------------------------- *)
\* item.get("title", {}).get("rendered", "No Title"); "raise" when the
\* title is null and has no .get.
Raise == "<raise>"
\* Mutant: item["title"]["rendered"], which raises on an absent key.
GetTitle_strict(item) ==
  IF item.title = "dict" /\ item.rendered # NoKey THEN item.rendered
  ELSE "<raise>"

GetTitle(item) ==
  CASE item.title = "missing" -> NoTitle
    [] item.title = "null"    -> Raise
    [] item.title = "dict"    -> IF item.rendered = NoKey THEN NoTitle
                                 ELSE item.rendered

\* Mutant: each title is put in front of those of the page so far.
RECURSIVE Appended_reversed(_)
Appended_reversed(items) ==
  IF items = <<>> THEN <<>>
  ELSE IF GetTitle(Head(items)) = Raise THEN <<>>
  ELSE Appended_reversed(Tail(items)) \o <<GetTitle(Head(items))>>

\* The for loop over data: the titles appended before the loop ends or raises.
RECURSIVE Appended(_)
Appended(items) ==
  IF items = <<>> THEN <<>>
  ELSE IF GetTitle(Head(items)) = Raise THEN <<>>
  ELSE <<GetTitle(Head(items))>> \o Appended(Tail(items))

Raises(items) == \E i \in 1..Len(items) : GetTitle(items[i]) = Raise

\* The value of page at the next iteration: the loop body never assigns it.
PageAfterBody(p) == p

Served(p) ==
  IF p \in DOMAIN upstream THEN {upstream[p]}
  ELSE IF p > MaxPages THEN {<<>>}
  ELSE NonEmptyPages \cup {<<>>}

Init ==
  /\ pc = "loop"
  /\ page = 1
  /\ results = <<>>
  /\ resp = OkResp(<<>>)
  /\ data = <<>>
  /\ requested = <<>>
  /\ upstream = <<>>
  /\ file = NoFile
  /\ writes = 0
  /\ prev = [valid |-> FALSE, names |-> <<>>, repeat |-> FALSE]
  /\ runs = 1
  /\ edits = 0
  /\ tracked = TRUE
  /\ returned = <<>>
  /\ outstanding = 0
  /\ calls = <<>>
  /\ procs = [p \in Procs |-> Idle]

\* data = await fetch_page(client, page): the request goes out.
Request ==
  /\ pc = "loop"
  /\ pc' = "await"
  /\ IF Len(requested) < MaxRequests
     THEN requested' = Append(requested, page) /\ tracked' = tracked
     ELSE requested' = requested /\ tracked' = FALSE
  /\ outstanding' = outstanding + 1
  /\ UNCHANGED <<page, results, resp, data, upstream, file, writes, prev,
                 runs, edits, returned, calls, procs>>

\* The request succeeds with the page the collection holds at that index.
RespondOk ==
  /\ pc = "await"
  /\ \E items \in Served(page) :
       /\ resp' = OkResp(items)
       /\ data' = fetch_page(OkResp(items))
       /\ upstream' = IF page \in 1..MaxPages
                      THEN (page :> items) @@ upstream ELSE upstream
  /\ returned' = IF tracked THEN Append(returned, data') ELSE returned
  /\ outstanding' = outstanding - 1
  /\ pc' = "fetched"
  /\ UNCHANGED <<page, results, requested, file, writes, prev, runs, edits,
                 tracked, calls, procs>>

\* The request fails: timeout, connection error, non-2xx status, bad body.
RespondError ==
  /\ pc = "await"
  /\ \E k \in ErrorKinds :
       /\ resp' = ErrResp(k)
       /\ data' = fetch_page(ErrResp(k))
  /\ returned' = IF tracked THEN Append(returned, data') ELSE returned
  /\ outstanding' = outstanding - 1
  /\ pc' = "fetched"
  /\ UNCHANGED <<page, results, requested, upstream, file, writes, prev,
                 runs, edits, tracked, calls, procs>>

\* Mutant: the loop is left after the first page, empty or not.
Stops_always(d) == TRUE

\* Mutant: an empty page does not end the loop.
Stops_never(d) == FALSE

\* if not data: break
Stops(d) == d = <<>>

\* The while body: break on an empty page, else append every title.
LoopBody ==
  /\ pc = "fetched"
  /\ IF Stops(data)
     THEN /\ pc' = "save"
          /\ UNCHANGED <<page, results>>
     ELSE /\ results' = IF tracked THEN results \o Appended(data)
                                     ELSE results
          /\ pc' = IF Raises(data) THEN "failed" ELSE "loop"
          /\ page' = PageAfterBody(page)
  /\ UNCHANGED <<resp, data, requested, upstream, file, writes, prev,
                 runs, edits, tracked, returned, outstanding, calls, procs>>

(* ------------------------------ save_excel ----------------------------- *)
Readable(f) == f.exists /\ f.readable

\* Step 1: existing_df and existing_names; both empty when the file is
\* missing or cannot be read.
\* Mutant: the old rows are rebuilt from their names with default fields.
existing_df_rebuilt(f) ==
  IF Readable(f)
  THEN [i \in 1..Len(f.rows) |-> Record(f.rows[i].Name, "", "", "Non fait")]
  ELSE <<>>

\* Mutant: the frame is not reset when the file cannot be read.
existing_df_kept(f) == f.rows

existing_df(f) == IF Readable(f) THEN f.rows ELSE <<>>

\* Mutant: the membership set is left empty although the file was read.
existing_names_empty(f) == {}

existing_names(f) ==
  IF Readable(f) THEN {f.rows[i].Name : i \in 1..Len(f.rows)} ELSE {}

\* Step 2: the dict appended for a name that is not in existing_names.
\* Mutant: a new row is created as already done.
NewCompany_done(name) == Record(name, "", "", "Fait")

NewCompany(name) == Record(name, "", "", NonFait)

\* Mutant: the membership test is inverted.
IsNew_inverted(name, existing) == name \in existing

IsNew(name, existing) == name \notin existing

\* The loop over scraped_names; existing_names is not updated inside it.
RECURSIVE new_companies_to_add(_, _)
new_companies_to_add(names, existing) ==
  IF names = <<>> THEN <<>>
  ELSE IF IsNew(Head(names), existing)
       THEN <<NewCompany(Head(names))>>
              \o new_companies_to_add(Tail(names), existing)
       ELSE new_companies_to_add(Tail(names), existing)

\* Mutant: the new rows are put in front of the old ones.
final_df_prepend(f, names) ==
  new_companies_to_add(names, existing_names(f)) \o existing_df(f)

\* Mutant: only the new rows are written, the concat is forgotten.
final_df_newonly(f, names) ==
  new_companies_to_add(names, existing_names(f))

\* Step 3: pd.concat([existing_df, new_df]).
final_df(f, names) ==
  existing_df(f) \o new_companies_to_add(names, existing_names(f))

\* Step 4: final_df.to_excel replaces the file; the workbook is then
\* reopened, given validation, highlight rules and widths over rows
\* 2..max_row+500, and saved again.
to_excel(rows) ==
  [exists |-> TRUE, readable |-> TRUE, rows |-> rows, bufferRow |-> 0]

\* Mutant: the Statut cell of the first lookahead row is filled in.
Formatted_fill(f) ==
  [f EXCEPT !.bufferRow = (Len(f.rows) + 1) + LookaheadRows,
            !.rows = Append(f.rows, Record("", "", "", "Non fait"))]

Formatted(f) == [f EXCEPT !.bufferRow = (Len(f.rows) + 1) + LookaheadRows]

\* Mutant: the early return is missing.
UpToDate_never(new) == FALSE

\* Mutant: save_excel always returns early.
UpToDate_always(new) == TRUE

\* if not new_companies_to_add: return
UpToDate(new) == new = <<>>

SaveExcel ==
  /\ pc = "save"
  /\ tracked
  /\ IF UpToDate(new_companies_to_add(results, existing_names(file)))
     THEN UNCHANGED <<file, writes>>
     ELSE /\ file' = Formatted(to_excel(final_df(file, results)))
          /\ writes' = writes + 2
  /\ prev' = [valid |-> TRUE, names |-> results,
              repeat |-> prev.valid /\ prev.names = results]
  /\ calls' = Append(calls, [names |-> results, found |-> file])
  /\ pc' = "done"
  /\ UNCHANGED <<page, results, resp, data, requested, upstream, runs, edits,
                 tracked, returned, outstanding, procs>>

(* ------------------------------ environment ---------------------------- *)
Finished == pc \in {"done", "failed"}

\* The operator fills in one tracking field of one row between two runs.
OperatorEdit ==
  /\ Finished
  /\ Readable(file)
  /\ edits < MaxEdits
  /\ \E i \in 1..Len(file.rows) :
       \/ file' = [file EXCEPT !.rows[i].ProjectSubmitted = "sent"]
       \/ file' = [file EXCEPT !.rows[i].Response = "yes"]
       \/ file' = [file EXCEPT !.rows[i].Statut = Fait]
  /\ file' # file
  /\ edits' = edits + 1
  /\ prev' = [valid |-> FALSE, names |-> <<>>, repeat |-> FALSE]
  /\ UNCHANGED <<pc, page, results, resp, data, requested, upstream, writes,
                 runs, tracked, returned, outstanding, calls, procs>>

\* The file is damaged between two runs and can no longer be parsed
\* (rows stays as what the damaged file held).
OperatorCorrupt ==
  /\ Finished
  /\ Readable(file)
  /\ edits < MaxEdits
  /\ file' = [file EXCEPT !.readable = FALSE]
  /\ edits' = edits + 1
  /\ prev' = [valid |-> FALSE, names |-> <<>>, repeat |-> FALSE]
  /\ UNCHANGED <<pc, page, results, resp, data, requested, upstream, writes,
                 runs, tracked, returned, outstanding, calls, procs>>

\* The program is invoked again: asyncio.run(main()) with fresh locals.
StartRun ==
  /\ Finished
  /\ runs < MaxRuns
  /\ pc' = "loop"
  /\ page' = 1
  /\ results' = <<>>
  /\ resp' = OkResp(<<>>)
  /\ data' = <<>>
  /\ requested' = <<>>
  /\ upstream' = <<>>
  /\ writes' = 0
  /\ runs' = runs + 1
  /\ tracked' = TRUE
  /\ returned' = <<>>
  /\ calls' = <<>>
  /\ UNCHANGED <<file, prev, edits, outstanding, procs>>

Next ==
  \/ Request
  \/ RespondOk
  \/ RespondError
  \/ LoopBody
  \/ SaveExcel
  \/ OperatorEdit
  \/ OperatorCorrupt
  \/ StartRun

Spec == Init /\ [][Next]_vars

\* The event loop resumes the coroutine, every request ends (answer or
\* 30 s timeout), and save_excel runs to its end once called.
FairSpec ==
  Spec /\ WF_vars(Request) /\ WF_vars(RespondOk \/ RespondError)
       /\ WF_vars(LoopBody) /\ WF_vars(SaveExcel)

(* ------------- two invocations inside save_excel (RaceSpec) ------------ *)
\* save_excel in the three steps at which it touches the file: read_excel
\* (Load), to_excel of the merged frame (Merge), load_workbook ... wb.save
\* (Format).  Two invocations take these steps in any order on one file;
\* nothing in save_excel locks the file.
otherVars == <<pc, page, results, resp, data, requested, upstream, writes,
               prev, runs, edits, tracked, returned, outstanding, calls>>

\* The names an invocation may have fetched.
RaceNames ==
  UNION {[1..n -> Names \cup {NoTitle}] : n \in 0..MaxItems}

\* The files an invocation may find: none, one with a row the operator has
\* worked on, and that file damaged.
EditedFile ==
  Formatted(to_excel(<<Record("A", "sent", "yes", Fait)>>))

RaceFiles ==
  {NoFile, EditedFile, [EditedFile EXCEPT !.readable = FALSE]}

RaceInit ==
  /\ pc = "save"
  /\ page = 1
  /\ results = <<>>
  /\ resp = OkResp(<<>>)
  /\ data = <<>>
  /\ requested = <<>>
  /\ upstream = <<>>
  /\ writes = 0
  /\ prev = [valid |-> FALSE, names |-> <<>>, repeat |-> FALSE]
  /\ runs = 1
  /\ edits = 0
  /\ tracked = TRUE
  /\ returned = <<>>
  /\ outstanding = 0
  /\ calls = <<>>
  /\ file \in RaceFiles
  /\ procs \in [Procs -> {[pc |-> "load", names |-> ns, seen |-> NoFile,
                            wroteAt |-> 0] : ns \in RaceNames}]

\* Step 1: os.path.exists and pd.read_excel: the file as it is now.
Load(p) ==
  /\ procs[p].pc = "load"
  /\ procs' = [procs EXCEPT ![p].pc = "merge", ![p].seen = file]
  /\ UNCHANGED <<file, otherVars>>

\* Mutant: the file is read again right before the merge.
MergeBase_reread(seen, current) == current

\* The frame save_excel merges into is the one it read in step 1; the file
\* is not looked at again before to_excel.
MergeBase(seen, current) == seen

\* Steps 2 to 4, up to to_excel: the diff against what was read, the early
\* return, the write of what was read followed by the new rows.
Merge(p) ==
  /\ procs[p].pc = "merge"
  /\ IF UpToDate(new_companies_to_add(
                    procs[p].names,
                    existing_names(MergeBase(procs[p].seen, file))))
     THEN /\ procs' = [procs EXCEPT ![p].pc = "done"]
          /\ UNCHANGED file
     ELSE /\ file' = to_excel(final_df(MergeBase(procs[p].seen, file),
                                       procs[p].names))
          /\ procs' = [procs EXCEPT
                         ![p].pc = "format",
                         ![p].wroteAt =
                           1 + Cardinality({q \in Procs : procs[q].wroteAt > 0})]
  /\ UNCHANGED otherVars

\* Step 4, after to_excel: load_workbook of the file as it is now, the
\* validation, the rules, the widths, wb.save.
Format(p) ==
  /\ procs[p].pc = "format"
  /\ file' = Formatted(file)
  /\ procs' = [procs EXCEPT ![p].pc = "done"]
  /\ UNCHANGED otherVars

RaceNext == \E p \in Procs : Load(p) \/ Merge(p) \/ Format(p)

RaceSpec == RaceInit /\ [][RaceNext]_vars

(* ======================= properties of save_excel ====================== *)
\* A step that is one whole call of save_excel.
SaveStep == pc = "save" /\ pc' = "done"

\* A step of the program, as opposed to one of the operator.
ProgramStep == edits' = edits

Tracking(r) == <<r.ProjectSubmitted, r.Response, r.Statut>>

\* C1 (Preservation): whatever the program does to a readable file, every
\* Record of it is still there afterwards, at its place, with the same Name
\* and the same Project Submitted, Response and Statut.
C1_Preservation ==
  [][(ProgramStep /\ Readable(file)) =>
       /\ Readable(file')
       /\ Len(file'.rows) >= Len(file.rows)
       /\ \A i \in 1..Len(file.rows) :
            /\ file'.rows[i].Name = file.rows[i].Name
            /\ Tracking(file'.rows[i]) = Tracking(file.rows[i])]_vars

\* A second run has appended to a file holding a row the operator edited
\* after the first run.
C1_Witness ==
  /\ pc = "done" /\ runs = 2 /\ edits = 1 /\ prev.valid /\ writes = 2
  /\ \E i \in 1..Len(file.rows) :
       Tracking(file.rows[i]) # <<"", "", NonFait>>

\* C2 (Idempotence): a call of save_excel that gets the same names as the
\* call before it, with no edit of the file in between, leaves the file as
\* it is and writes nothing.
C2_Idempotence ==
  [][(SaveStep /\ prev.valid /\ prev.names = results) =>
       (file' = file /\ writes' = writes)]_vars

\* Two calls in a row got the same non-empty names; the first one wrote.
C2_Witness ==
  /\ pc = "done" /\ prev.repeat /\ results # <<>> /\ edits = 0
  /\ Readable(file) /\ writes = 0

NamesOf(rows) == [i \in 1..Len(rows) |-> rows[i].Name]

\* C3 (Name uniqueness): no two rows of the persisted file have the same Name.
C3_NameUnique ==
  Readable(file) =>
    \A i, j \in 1..Len(file.rows) :
      i # j => file.rows[i].Name # file.rows[j].Name

\* C4 (Order): when save_excel writes, the rows it found form the unchanged
\* head of the file, and the rows after them carry, in fetch order, the
\* fetched names that were not in the file.
C4_Order ==
  [][(SaveStep /\ file' # file) =>
       LET old == existing_df(file)
           Absent(n) == \A i \in 1..Len(old) : old[i].Name # n
       IN /\ Len(file'.rows) >= Len(old)
          /\ SubSeq(file'.rows, 1, Len(old)) = old
          /\ NamesOf(SubSeq(file'.rows, Len(old) + 1, Len(file'.rows)))
               = SelectSeq(results, Absent)]_vars

\* A second run appended two differently named rows behind an older row.
C4_Witness ==
  /\ pc = "done" /\ runs = 2 /\ writes = 2 /\ prev.valid
  /\ Len(file.rows) >= 3
  /\ file.rows[Len(file.rows) - 1].Name # file.rows[Len(file.rows)].Name
  /\ file.rows[1].Name \notin {file.rows[Len(file.rows) - 1].Name,
                                file.rows[Len(file.rows)].Name}

\* C8 (Short-circuit): when every fetched name is already in the Name column
\* (or nothing was fetched), save_excel writes nothing: the file stays as it
\* is, and a missing file stays missing.
C8_ShortCircuit ==
  [][(SaveStep /\ \A i \in 1..Len(results) :
                    results[i] \in existing_names(file)) =>
       (file' = file /\ writes' = writes /\ writes' = 0)]_vars

\* A run that fetched nothing found no file and left none.
C8_Witness ==
  /\ pc = "done" /\ results = <<>> /\ prev.valid /\ ~file.exists /\ writes = 0

\* C9 (Default values): when save_excel writes, every row it puts behind the
\* rows it read has Project Submitted and Response empty and Statut
\* "Non fait".
C9_Defaults ==
  [][(SaveStep /\ writes' # writes) =>
       \A i \in (Len(existing_df(file)) + 1)..Len(file'.rows) :
         Tracking(file'.rows[i]) = <<"", "", "Non fait">>]_vars

\* A run has appended at least one row to a file that holds a done row.
C9_Witness ==
  /\ pc = "done" /\ writes = 2 /\ prev.valid /\ runs = 2
  /\ \E i \in 1..Len(file.rows) : file.rows[i].Statut = Fait
  /\ file.rows[Len(file.rows)].Statut = NonFait

(* ======================= properties of scrape_all ====================== *)
\* C5 (Page sequencing): the page indices requested in a run are 1, 2, 3, ...
C5_PageSequencing ==
  \A i \in 1..Len(requested) : requested[i] = i

\* The collection has served an item whose title is null.
MalformedServed ==
  \E p \in DOMAIN upstream : Raises(upstream[p])

\* C6 (Termination): every run over a collection of well-formed items
\* leaves the fetch loop and comes to save_excel.
C6_Termination ==
  (pc = "loop") ~> (pc \in {"save", "done"} \/ MalformedServed)

\* C7 (Per-page failure policy): when the request of a page fails,
\* fetch_page returns an empty page and scrape_all leaves the loop with the
\* names it has; no further request is made in this run, and save_excel is
\* called with exactly those names.
C7_FailurePolicy ==
  [][/\ (pc = "fetched" /\ IsError(resp)) =>
          (data = <<>> /\ pc' = "save" /\ results' = results
                      /\ requested' = requested /\ tracked' = tracked)
     /\ (pc = "save") =>
          (pc' = "done" /\ requested' = requested /\ results' = results
                        /\ prev'.valid /\ prev'.names = results)]_vars

\* The first request brought names, the second failed, and save_excel got
\* the names of the first.
C7_Witness ==
  /\ pc = "done" /\ IsError(resp) /\ Len(requested) = 2
  /\ results # <<>> /\ prev.valid /\ prev.names = results

TitleAbsent(item) ==
  item.title = "missing" \/ (item.title = "dict" /\ item.rendered = NoKey)

\* C10 (Fallback placeholder): on a page without a null title (of a run
\* whose results are recorded), every item
\* gets a name, an item without title or without title.rendered gets
\* "No Title", and the loop goes on to its next request.
C10_Placeholder ==
  [][(pc = "fetched" /\ tracked /\ data # <<>>
        /\ \A i \in 1..Len(data) : data[i].title # "null") =>
       /\ pc' = "loop"
       /\ Len(results') = Len(results) + Len(data)
       /\ SubSeq(results', 1, Len(results)) = results
       /\ \A i \in 1..Len(data) :
            TitleAbsent(data[i]) => results'[Len(results) + i] = "No Title"]_vars

\* A page held an item without title and one whose title has no rendered
\* value; both were recorded and the loop went on.
C10_Witness ==
  /\ pc = "loop" /\ Len(data) = 2
  /\ data[1].title = "missing"
  /\ data[2].title = "dict" /\ data[2].rendered = NoKey
  /\ results = <<"No Title", "No Title">>

(* ================== further properties of save_excel =================== *)
DefaultRows(names) ==
  [i \in 1..Len(names) |-> Record(names[i], "", "", "Non fait")]

\* C11 (Unreadable existing file): when the file exists and cannot be parsed,
\* save_excel with no names leaves it alone, and save_excel with names
\* replaces it by one default row per fetched name and nothing of what the
\* file held.
C11_UnreadableFallback ==
  [][(SaveStep /\ file.exists /\ ~file.readable) =>
       IF results = <<>>
       THEN file' = file /\ writes' = writes
       ELSE Readable(file') /\ file'.rows = DefaultRows(results)]_vars

\* save_excel found a damaged file that held rows, got names, and wrote a
\* file from which a name of the damaged file is gone.
C11_Witness ==
  /\ pc = "done" /\ Len(calls) = 1 /\ results # <<>> /\ Readable(file)
  /\ calls[1].found.exists /\ ~calls[1].found.readable
  /\ \E i \in 1..Len(calls[1].found.rows) :
       calls[1].found.rows[i].Name \notin existing_names(file)

\* C15 (First run): with no file and a non-empty fetched sequence, save_excel
\* creates the file with one default row per fetched name, in fetch order,
\* and no other row.
C15_FirstRun ==
  [][(SaveStep /\ ~file.exists /\ results # <<>>) =>
       /\ Readable(file')
       /\ Len(file'.rows) = Len(results)
       /\ \A i \in 1..Len(results) :
            file'.rows[i] = Record(results[i], "", "", "Non fait")]_vars

\* The first run fetched A then B, found no file and wrote two rows.
C15_Witness ==
  /\ pc = "done" /\ runs = 1 /\ Len(calls) = 1 /\ ~calls[1].found.exists
  /\ results = <<"A", "B">> /\ Len(file.rows) = 2 /\ writes = 2

\* C17 (Completeness): when save_excel returns, every name it was given is
\* in the Name column of the persisted file.
C17_Completeness ==
  [][SaveStep =>
       \A i \in 1..Len(results) :
         Readable(file') /\ results[i] \in existing_names(file')]_vars

\* save_excel returned after being given a name the file already had and a
\* name it had not.
C17_Witness ==
  /\ pc = "done" /\ Len(calls) = 1 /\ Readable(calls[1].found)
  /\ \E i, j \in 1..Len(results) :
       /\ results[i] \in existing_names(calls[1].found)
       /\ results[j] \notin existing_names(calls[1].found)

\* C18 (Monotonic growth): a step of the program on a file that is missing
\* or readable leaves the old rows as the head of the file: the row count
\* does not decrease and no Name disappears.
C18_Monotonic ==
  [][(ProgramStep /\ (file.exists => file.readable)) =>
       /\ (file.exists => Readable(file'))
       /\ Len(file'.rows) >= Len(file.rows)
       /\ SubSeq(file'.rows, 1, Len(file.rows)) = file.rows
       /\ existing_names(file) \subseteq existing_names(file')]_vars

\* A second run found a readable file with rows and made it longer.
C18_Witness ==
  /\ pc = "done" /\ runs = 2 /\ Len(calls) = 1 /\ Readable(calls[1].found)
  /\ calls[1].found.rows # <<>>
  /\ Len(file.rows) > Len(calls[1].found.rows)

(* ================== further properties of scrape_all =================== *)
\* The names of the items of a sequence of pages, page by page, item by item.
RECURSIVE NamesIn(_)
NamesIn(pages) ==
  IF pages = <<>> THEN <<>>
  ELSE [i \in 1..Len(Head(pages)) |-> GetTitle(Head(pages)[i])]
         \o NamesIn(Tail(pages))

InLoop(p) == p \in {"loop", "await", "fetched"}

\* C12 (Stop on first empty page): scrape_all leaves the loop when fetch_page
\* returns no item and requests nothing more; what it then returns is the
\* names of the items of the pages returned before, all of them non-empty,
\* page after page and item after item.
C12_StopOnEmpty ==
  [][/\ (pc = "fetched" /\ data = <<>>) =>
          (pc' = "save" /\ requested' = requested)
     /\ (pc = "save") => requested' = requested
     /\ (pc' \in {"save", "done"} /\ tracked') =>
          /\ returned' # <<>>
          /\ Len(requested') = Len(returned')
          /\ returned'[Len(returned')] = <<>>
          /\ \A i \in 1..(Len(returned') - 1) : returned'[i] # <<>>
          /\ results' = NamesIn(returned')]_vars

\* Two pages of two differently named items were returned, then an empty
\* one, and the loop was left with the four names.
C12_Witness ==
  /\ pc = "save" /\ Len(returned) = 3 /\ returned[3] = <<>>
  /\ Len(returned[1]) = 2 /\ Len(results) = 4
  /\ results[1] # results[2]

\* C14 (Fetch-then-reconcile): never more than one request is unanswered;
\* while the loop runs save_excel has not been called and no step touches
\* the file; a finished run has called save_excel once, with the names of
\* every page fetch_page returned.
C14_FetchThenReconcile ==
  [][/\ outstanding' <= 1
     /\ InLoop(pc) => file' = file
     /\ InLoop(pc') => (calls' = <<>> /\ writes' = 0)
     /\ Len(calls') <= 1
     /\ (pc' = "done") =>
          /\ Len(calls') = 1
          /\ outstanding' = 0
          /\ returned'[Len(returned')] = <<>>
          /\ calls'[1].names = NamesIn(returned')]_vars

\* A run fetched a page of names, then an empty one, and has called
\* save_excel once, which wrote.
C14_Witness ==
  /\ pc = "done" /\ Len(calls) = 1 /\ Len(returned) = 2 /\ outstanding = 0
  /\ calls[1].names # <<>> /\ writes = 2

(* ==================== properties of concurrent runs ==================== *)
\* One whole save_excel on file f with the given names.
Sequential(f, names) ==
  IF new_companies_to_add(names, existing_names(f)) = <<>> THEN f
  ELSE Formatted(to_excel(final_df(f, names)))

\* Both invocations are through, both wrote, p before q, and both had read
\* the file before either wrote.
Overlapped(p, q) ==
  /\ procs[p].pc = "done" /\ procs[q].pc = "done"
  /\ procs[p].wroteAt = 1 /\ procs[q].wroteAt = 2
  /\ procs[p].seen = procs[q].seen

\* The names p appended that q neither read in the file nor fetched itself.
OnlyFrom(p, q) ==
  {procs[p].names[i] : i \in 1..Len(procs[p].names)}
    \ (existing_names(procs[p].seen)
         \cup {procs[q].names[i] : i \in 1..Len(procs[q].names)})

\* C13 (Concurrent runs lose data): when two invocations both read the file
\* before either writes, the file ends as the rows that were read followed
\* by the rows of the later writer alone; every name only the earlier
\* writer appended is absent, and the file is then neither of the two
\* results of running the reconciliations one after the other.
C13_LostUpdate ==
  \A p, q \in Procs :
    Overlapped(p, q) =>
      LET base == procs[q].seen
          Fresh(n) == n \notin existing_names(base)
      IN /\ file.rows = existing_df(base)
                          \o DefaultRows(SelectSeq(procs[q].names, Fresh))
         /\ \A n \in OnlyFrom(p, q) : n \notin existing_names(file)
         /\ OnlyFrom(p, q) # {} =>
              /\ file # Sequential(Sequential(base, procs[p].names),
                                    procs[q].names)
              /\ file # Sequential(Sequential(base, procs[q].names),
                                    procs[p].names)

\* Both read the file holding A; one appended B, then the other wrote its
\* own merge: B is not in the final file.
C13_Witness ==
  \E p, q \in Procs :
    /\ Overlapped(p, q)
    /\ Readable(procs[q].seen)
    /\ "B" \in OnlyFrom(p, q)
    /\ "B" \notin existing_names(file)
    /\ Len(file.rows) > Len(procs[q].seen.rows)

\* A step that is the formatting phase of one invocation.
FormatStep ==
  \E p \in Procs : procs[p].pc = "format" /\ procs'[p].pc = "done"

\* C16 (Presentation step is data-neutral): the formatting phase leaves
\* every row of the file as to_excel wrote it and sets validation and
\* highlight rules over rows 2..max_row+500.
C16_FormatNeutral ==
  [][FormatStep =>
       /\ Readable(file')
       /\ file'.rows = file.rows
       /\ file'.bufferRow = (Len(file.rows) + 1) + 500]_vars

\* One invocation alone has written the operator's row and a new row and
\* has formatted the file.
C16_Witness ==
  \E p, q \in Procs :
    /\ procs[p].pc = "done" /\ procs[p].wroteAt = 1
    /\ procs[q].pc = "done" /\ procs[q].wroteAt = 0
    /\ Len(file.rows) = 2
    /\ file.rows[1] = Record("A", "sent", "yes", Fait)
    /\ file.rows[2] = Record("B", "", "", NonFait)
    /\ file.bufferRow = 503
====
